---- MODULE Spec2Model ----
(***************************************************************************)
(* Model of tarmac's sync backends (src/sync_backend.rs): the SyncBackend  *)
(* trait's single operation `upload` as implemented by RobloxSyncBackend,  *)
(* NoneSyncBackend and DebugSyncBackend, together with the Error enum the  *)
(* three implementations return.                                           *)
(*                                                                         *)
(* The collaborators the backends call are modelled by what the calls can  *)
(* do: RobloxApiClient::upload_image_with_moderation_retry returns either  *)
(* a response or a RobloxApiError; fs::create_dir_all and fs::write either *)
(* succeed or fail with an io::Error.                                      *)
(***************************************************************************)
EXTENDS Integers, Sequences, FiniteSets, TLC

\* Total number of upload calls explored in one behaviour.
MaxCalls == 3

\* Number of DebugSyncBackend instances living in the same working directory.
NumInstances == 2

Instances == 1..NumInstances

----------------------------------------------------------------------------
\* Result<T, E> and Option<T>

Ok(v) == [ok |-> TRUE, value |-> v]

Err(e) == [ok |-> FALSE, error |-> e]

OptionNone == [some |-> FALSE]

OptionSome(v) == [some |-> TRUE, value |-> v]

----------------------------------------------------------------------------
\* Inputs

\* UploadInfo values handed to upload.
UploadInfos ==
    { [name |-> "icon", contents |-> <<1, 2>>, hash |-> "abc"],
      [name |-> "logo", contents |-> <<3>>,    hash |-> "def"] }

\* upload_to_group_id values a RobloxSyncBackend can be constructed with.
GroupIds == { OptionNone, OptionSome(7) }

\* StatusCode::TOO_MANY_REQUESTS
TOO_MANY_REQUESTS == 429

\* Errors upload_image_with_moderation_retry can return.  Only the
\* ResponseError variant carries a status.
RobloxApiErrors ==
    { [variant |-> "ResponseError", status |-> s, body |-> b] :
          s \in {TOO_MANY_REQUESTS, 500}, b \in {"", "busy"} }
    \cup { [variant |-> "BadResponseJson", body |-> "{"] }

\* Everything upload_image_with_moderation_retry can return.
ApiResults ==
    { Ok([backing_asset_id |-> a]) : a \in {100, 101} }
    \cup { Err(e) : e \in RobloxApiErrors }

\* io::Error, identified by the filesystem operation that failed.
IoError(op) == [op |-> op]

\* Spool directory contents a process can find at start: file name -> bytes.
NoFiles == [n \in {} |-> <<>>]

StaleFiles == (<<1>> :> <<9, 9>>)

----------------------------------------------------------------------------
\* enum Error

NoneBackend == [kind |-> "NoneBackend"]

RateLimited == [kind |-> "RateLimited"]

\* #[from] io::Error
Io(source) == [kind |-> "Io", source |-> source]

\* #[from] RobloxApiError
RobloxError(source) == [kind |-> "RobloxError", source |-> source]

----------------------------------------------------------------------------
VARIABLES
    upload_to_group_id, \* RobloxSyncBackend.upload_to_group_id
    api_client,         \* requests the RobloxApiClient received, in order
    last_id,            \* DebugSyncBackend.last_id, per instance
    dir_exists,         \* whether .tarmac-debug exists
    files,              \* files inside .tarmac-debug: name -> contents
    rLog,               \* RobloxSyncBackend::upload calls: input, client result, return
    nLog,               \* NoneSyncBackend::upload calls: return
    dLog                \* DebugSyncBackend::upload calls: instance, input, id, return

vars == <<upload_to_group_id, api_client, last_id, dir_exists, files, rLog, nLog, dLog>>

remoteVars == <<upload_to_group_id, api_client, rLog>>

debugVars == <<last_id, dir_exists, files, dLog>>

CallsMade == Len(rLog) + Len(nLog) + Len(dLog)

\* The calls made on one DebugSyncBackend instance, in call order.
InstLog(i) == SelectSeq(dLog, LAMBDA e : e.inst = i)

----------------------------------------------------------------------------
\* RobloxSyncBackend

\* The ImageUploadData built for the client call.
ImageUploadData(data, group_id) ==
    [ image_data  |-> data.contents,
      name        |-> data.name,
      description |-> "Uploaded by Tarmac.",
      group_id    |-> group_id ]

\* Whether the client's result is a ResponseError with status 429.
Is429(result) ==
    /\ ~result.ok
    /\ result.error.variant = "ResponseError"
    /\ result.error.status = TOO_MANY_REQUESTS

\* Faulty variant of RobloxMatch: the TOO_MANY_REQUESTS arm is missing.
RobloxMatch_NoRateLimitArm(result) ==
    IF result.ok
    THEN Ok([id |-> result.value.backing_asset_id])
    ELSE Err(RobloxError(result.error))

\* Faulty variant of RobloxMatch: the first error arm ignores the status.
RobloxMatch_AnyStatus(result) ==
    IF result.ok
    THEN Ok([id |-> result.value.backing_asset_id])
    ELSE IF result.error.variant = "ResponseError"
         THEN Err(RateLimited)
         ELSE Err(RobloxError(result.error))

\* The match on the client's result.
RobloxMatch(result) ==
    IF result.ok
    THEN Ok([id |-> result.value.backing_asset_id])
    ELSE IF /\ result.error.variant = "ResponseError"
            /\ result.error.status = TOO_MANY_REQUESTS
         THEN Err(RateLimited)
         ELSE Err(RobloxError(result.error))

\* Faulty variant of RobloxSyncBackend::upload: a rate-limited call is sent
\* to the client a second time.
RobloxSyncBackend_upload_Retry(data, result) ==
    /\ CallsMade < MaxCalls
    /\ LET request == ImageUploadData(data, upload_to_group_id) IN
       api_client' = IF Is429(result)
                     THEN api_client \o <<request, request>>
                     ELSE Append(api_client, request)
    /\ rLog' = Append(rLog, [data |-> data, result |-> result, ret |-> RobloxMatch(result)])
    /\ UNCHANGED <<upload_to_group_id, nLog, debugVars>>

\* RobloxSyncBackend::upload; result is what the client call returns.
RobloxSyncBackend_upload(data, result) ==
    /\ CallsMade < MaxCalls
    /\ api_client' = Append(api_client, ImageUploadData(data, upload_to_group_id))
    /\ rLog' = Append(rLog, [data |-> data, result |-> result, ret |-> RobloxMatch(result)])
    /\ UNCHANGED <<upload_to_group_id, nLog, debugVars>>

----------------------------------------------------------------------------
\* NoneSyncBackend

\* Faulty variant of NoneSyncBackend::upload: a stub that reports success.
NoneSyncBackend_upload_Stub(data) ==
    /\ CallsMade < MaxCalls
    /\ nLog' = Append(nLog, Ok([id |-> 0]))
    /\ UNCHANGED <<remoteVars, debugVars>>

\* NoneSyncBackend::upload
NoneSyncBackend_upload(data) ==
    /\ CallsMade < MaxCalls
    /\ nLog' = Append(nLog, Err(NoneBackend))
    /\ UNCHANGED <<remoteVars, debugVars>>

----------------------------------------------------------------------------
\* DebugSyncBackend

\* Faulty variant of DebugSyncBackend::new: the counter starts at 1.
DebugSyncBackend_new_FromOne == [last_id |-> 1]

\* DebugSyncBackend::new
DebugSyncBackend_new == [last_id |-> 0]

\* Faulty variant of Increment: the counter is left as it was.
Increment_Forgotten(n) == n

\* self.last_id += 1.  last_id is a u64 that starts at 0, so the addition
\* cannot overflow within MaxCalls calls.
Increment(n) == n + 1

\* u64::to_string: the decimal digits, most significant first.
RECURSIVE to_string(_)
to_string(n) == IF n < 10 THEN <<n>> ELSE to_string(n \div 10) \o <<n % 10>>

\* path.join(id.to_string()): the file's name inside .tarmac-debug.
FilePath(id) == to_string(id)

\* Faulty variant of CreateDirAll: fs::create_dir, which fails on a directory
\* that is already there.
CreateDir(exists) ==
    IF exists
    THEN { [res |-> Err(IoError("create_dir_all")), exists |-> TRUE] }
    ELSE { [res |-> Ok(TRUE), exists |-> TRUE],
           [res |-> Err(IoError("create_dir_all")), exists |-> FALSE] }

\* fs::create_dir_all(".tarmac-debug"): Ok when the directory is there, else
\* it is created or the creation fails.
CreateDirAll(exists) ==
    IF exists
    THEN { [res |-> Ok(TRUE), exists |-> TRUE] }
    ELSE { [res |-> Ok(TRUE), exists |-> TRUE],
           [res |-> Err(IoError("create_dir_all")), exists |-> FALSE] }

Put(fs, name, contents) ==
    [n \in DOMAIN fs \cup {name} |-> IF n = name THEN contents ELSE fs[n]]

StrictPrefixes(s) == { SubSeq(s, 1, n) : n \in 0..(Len(s) - 1) }

\* Faulty variant of FsWrite: the file is opened for appending.
FsWrite_Append(fs, name, contents) ==
    { [res |-> Ok(TRUE),
       files |-> Put(fs, name, IF name \in DOMAIN fs THEN fs[name] \o contents
                                                     ELSE contents)] }
    \cup { [res |-> Err(IoError("open")), files |-> fs] }

\* Faulty variant of FsWrite: a file that is already there is kept.
FsWrite_KeepExisting(fs, name, contents) ==
    { [res |-> Ok(TRUE),
       files |-> IF name \in DOMAIN fs THEN fs ELSE Put(fs, name, contents)] }
    \cup { [res |-> Err(IoError("open")), files |-> fs] }

\* fs::write(file_path, contents): creates or truncates the file and writes
\* all of contents.  It can fail opening the file, which leaves the file as
\* it was, or while writing, which leaves a truncated file.
FsWrite(fs, name, contents) ==
    { [res |-> Ok(TRUE), files |-> Put(fs, name, contents)] }
    \cup { [res |-> Err(IoError("open")), files |-> fs] }
    \cup { [res |-> Err(IoError("write_all")), files |-> Put(fs, name, p)] :
               p \in StrictPrefixes(contents) }

DebugEntry(i, data, id, ret) ==
    [inst |-> i, contents |-> data.contents, id |-> id, ret |-> ret]

\* Faulty variant of DebugSyncBackend::upload: the counter is restored when
\* the directory creation or the write fails.
DebugSyncBackend_upload_Rollback(i, data) ==
    /\ CallsMade < MaxCalls
    /\ LET id == Increment(last_id[i]) IN
       \E mk \in CreateDirAll(dir_exists) :
            /\ dir_exists' = mk.exists
            /\ IF ~mk.res.ok
               THEN /\ files' = files
                    /\ last_id' = last_id
                    /\ dLog' = Append(dLog, DebugEntry(i, data, id, Err(Io(mk.res.error))))
               ELSE \E wr \in FsWrite(files, FilePath(id), data.contents) :
                      /\ files' = wr.files
                      /\ last_id' = IF wr.res.ok THEN [last_id EXCEPT ![i] = id]
                                                 ELSE last_id
                      /\ dLog' = Append(dLog, DebugEntry(i, data, id,
                                     IF wr.res.ok THEN Ok([id |-> id])
                                                  ELSE Err(Io(wr.res.error))))
    /\ UNCHANGED <<remoteVars, nLog>>

\* DebugSyncBackend::upload on instance i.
DebugSyncBackend_upload(i, data) ==
    /\ CallsMade < MaxCalls
    /\ LET id == Increment(last_id[i]) IN
       /\ last_id' = [last_id EXCEPT ![i] = id]
       /\ \E mk \in CreateDirAll(dir_exists) :
            /\ dir_exists' = mk.exists
            /\ IF ~mk.res.ok
               THEN /\ files' = files
                    /\ dLog' = Append(dLog, DebugEntry(i, data, id, Err(Io(mk.res.error))))
               ELSE \E wr \in FsWrite(files, FilePath(id), data.contents) :
                      /\ files' = wr.files
                      /\ dLog' = Append(dLog, DebugEntry(i, data, id,
                                     IF wr.res.ok THEN Ok([id |-> id])
                                                  ELSE Err(Io(wr.res.error))))
    /\ UNCHANGED <<remoteVars, nLog>>

----------------------------------------------------------------------------
Init ==
    /\ upload_to_group_id \in GroupIds
    /\ api_client = <<>>
    /\ last_id = [i \in Instances |-> DebugSyncBackend_new.last_id]
    /\ \/ dir_exists = FALSE /\ files = NoFiles
       \/ dir_exists = TRUE /\ files \in {NoFiles, StaleFiles}
    /\ rLog = <<>>
    /\ nLog = <<>>
    /\ dLog = <<>>

Next ==
    \/ \E data \in UploadInfos, result \in ApiResults : RobloxSyncBackend_upload(data, result)
    \/ \E data \in UploadInfos : NoneSyncBackend_upload(data)
    \/ \E i \in Instances, data \in UploadInfos : DebugSyncBackend_upload(i, data)

Spec == Init /\ [][Next]_vars

----------------------------------------------------------------------------
\* Properties

Last(s) == s[Len(s)]

\* A step that is one DebugSyncBackend::upload call.
DebugStep == Len(dLog') = Len(dLog) + 1

\* A step that is one NoneSyncBackend::upload call.
NoneStep == Len(nLog') = Len(nLog) + 1

\* The call failed in fs::create_dir_all.
MkdirFailed(e) == ~e.ret.ok /\ e.ret.error = Io(IoError("create_dir_all"))

\* The call failed inside fs::write.
WriteFailed(e) ==
    /\ ~e.ret.ok
    /\ e.ret.error \in { Io(IoError("open")), Io(IoError("write_all")) }

\* C1: whenever the client call fails with a ResponseError of status 429,
\* whatever its body, upload returns Err(RateLimited) and so never RobloxError.
C1_RateLimited ==
    \A k \in 1..Len(rLog) :
        Is429(rLog[k].result) => rLog[k].ret = Err(RateLimited)

C1_Witness ==
    \E j, k \in 1..Len(rLog) :
        /\ Is429(rLog[j].result) /\ Is429(rLog[k].result)
        /\ rLog[j].result.error.body # rLog[k].result.error.body
        /\ rLog[j].ret = Err(RateLimited) /\ rLog[k].ret = Err(RateLimited)

\* C2: every failure of the client call other than a 429 response makes
\* upload return RobloxError whose source is the client's error unchanged, so
\* never RateLimited, Io or NoneBackend.
C2_RobloxErrorWrapsCause ==
    \A k \in 1..Len(rLog) :
        (~rLog[k].result.ok /\ ~Is429(rLog[k].result))
            => /\ ~rLog[k].ret.ok
               /\ rLog[k].ret.error.kind = "RobloxError"
               /\ rLog[k].ret.error.source = rLog[k].result.error

C2_Witness ==
    \E j, k \in 1..Len(rLog) :
        /\ ~rLog[j].result.ok /\ rLog[j].result.error.variant = "ResponseError"
        /\ rLog[j].result.error.status = 500
        /\ rLog[j].ret = Err(RobloxError(rLog[j].result.error))
        /\ ~rLog[k].result.ok /\ rLog[k].result.error.variant = "BadResponseJson"
        /\ rLog[k].ret = Err(RobloxError(rLog[k].result.error))

\* C3 as stated: the k-th upload call on a debug backend instance returns
\* id k, for every call of every sequence of calls.
C3_Original ==
    \A i \in Instances :
        \A k \in 1..Len(InstLog(i)) : InstLog(i)[k].ret = Ok([id |-> k])

\* C3 as amended: the k-th upload call on a debug backend instance returns
\* id k whenever it returns an id, so N calls that all succeed return exactly
\* 1..N in call order; a call that fails returns no id.
C3_Amended ==
    \A i \in Instances :
        LET L == InstLog(i) IN
        /\ \A k \in 1..Len(L) : L[k].ret.ok => L[k].ret.value.id = k
        /\ (\A k \in 1..Len(L) : L[k].ret.ok)
               => [k \in 1..Len(L) |-> L[k].ret.value.id] = [k \in 1..Len(L) |-> k]

C3_Witness ==
    \E i \in Instances :
        LET L == InstLog(i) IN
        /\ Len(L) = MaxCalls
        /\ \A k \in 1..Len(L) : L[k].ret = Ok([id |-> k])

\* C4: a debug upload call that returns id k leaves a file named k holding
\* exactly the bytes supplied, whatever the file held before, and leaves every
\* other file, those of the instance's earlier calls among them, unchanged.
C4_FileHoldsContents ==
    [][ DebugStep =>
          LET e == Last(dLog') IN
          e.ret.ok =>
            LET name == to_string(e.ret.value.id)
                L == InstLog(e.inst) IN
            /\ name \in DOMAIN files'
            /\ files'[name] = e.contents
            /\ \A n \in DOMAIN files \ {name} :
                   n \in DOMAIN files' /\ files'[n] = files[n]
            /\ \A j \in 1..Len(L) :
                   L[j].ret.ok =>
                       /\ to_string(L[j].ret.value.id) \in DOMAIN files \ {name}
                       /\ files'[to_string(L[j].ret.value.id)]
                              = files[to_string(L[j].ret.value.id)]
      ]_vars

C4_Witness ==
    \E i \in Instances :
        LET L == InstLog(i) IN
        /\ Len(L) = 2
        /\ L[1].ret = Ok([id |-> 1]) /\ L[2].ret = Ok([id |-> 2])
        /\ L[1].contents = <<1, 2>> /\ L[2].contents # L[1].contents
        /\ Len(dLog) = 2
        /\ files = (<<1>> :> L[1].contents) @@ (<<2>> :> L[2].contents)

\* C5: every call of the no-op backend returns Err(NoneBackend) and changes
\* nothing: no file, no directory, no client call, no backend state.
C5_NoneBackendInert ==
    [][ NoneStep =>
          /\ Last(nLog') = Err(NoneBackend)
          /\ UNCHANGED <<files, dir_exists, api_client, last_id,
                         upload_to_group_id, rLog, dLog>>
      ]_vars

C5_Witness ==
    /\ Len(nLog) >= 1
    /\ Last(nLog) = Err(NoneBackend)
    /\ Len(rLog) >= 1
    /\ Len(dLog) >= 1

C7_IdsStrictlyIncrease ==
    \A i \in Instances :
        LET L == InstLog(i) IN
        \A j, k \in 1..Len(L) :
            (j < k /\ L[j].ret.ok /\ L[k].ret.ok)
                => L[j].ret.value.id < L[k].ret.value.id

C7_Witness ==
    \E i \in Instances :
        LET L == InstLog(i) IN
        /\ Len(L) = 3
        /\ L[1].ret.ok /\ ~L[2].ret.ok /\ L[3].ret.ok
        /\ L[1].ret.value.id < L[3].ret.value.id

\* C8 as stated: if the spool directory does not exist before the first
\* debug upload call it exists after that call, and a call made when the
\* directory exists does not fail in the directory creation.
C8_Original ==
    [][ DebugStep =>
          /\ (Len(dLog) = 0 /\ ~dir_exists) => dir_exists'
          /\ dir_exists => ~MkdirFailed(Last(dLog'))
      ]_vars

\* C8 as amended: after a debug upload call whose directory creation did not
\* fail the spool directory exists, whether or not it existed before; a call
\* made when the directory exists never fails in the directory creation and
\* leaves it in place; when the creation fails the call returns Io and the
\* directory is still absent.
C8_Amended ==
    [][ DebugStep =>
          /\ ~MkdirFailed(Last(dLog')) => dir_exists'
          /\ dir_exists => (~MkdirFailed(Last(dLog')) /\ dir_exists')
          /\ MkdirFailed(Last(dLog')) => (~dir_exists /\ ~dir_exists')
      ]_vars

C8_Witness ==
    /\ Len(dLog) = 3
    /\ MkdirFailed(dLog[1])
    /\ dLog[2].ret.ok
    /\ dLog[3].ret.ok
    /\ dir_exists

\* The calls that wrote to the file named k: the successful ones and those
\* that failed after the file was truncated.
Writers(k) ==
    { n \in 1..Len(dLog) :
        /\ dLog[n].id = k
        /\ \/ dLog[n].ret.ok
           \/ dLog[n].ret.error = Io(IoError("write_all")) }

LastWriter(k) == CHOOSE n \in Writers(k) : \A m \in Writers(k) : m <= n

IdsUsed == { dLog[n].id : n \in 1..Len(dLog) }

\* Every instance numbers its calls from 1: its k-th call uses id k.
OwnIdSpace ==
    \A i \in Instances : \A k \in 1..Len(InstLog(i)) : InstLog(i)[k].id = k

\* The last successful call that used id k.
LastSuccess(k) ==
    CHOOSE n \in Writers(k) :
        /\ dLog[n].ret.ok
        /\ \A m \in Writers(k) : dLog[m].ret.ok => m <= n

\* C10 as stated: every debug instance numbers its ids from 1 and all write
\* into the same directory, so the file named k holds the contents of
\* whichever instance's k-th call wrote it last, that is, of the last call
\* that returned id k.
C10_Original ==
    /\ OwnIdSpace
    /\ \A k \in IdsUsed :
           (\E n \in Writers(k) : dLog[n].ret.ok) =>
               /\ to_string(k) \in DOMAIN files
               /\ files[to_string(k)] = dLog[LastSuccess(k)].contents

\* C10 as amended: every debug instance numbers its ids from 1 and all write
\* into the same directory, so the file named k holds the contents of
\* whichever instance's k-th call wrote it last when that call succeeded, and
\* a proper prefix of them when that call's write failed.
C10_Amended ==
    /\ OwnIdSpace
    /\ \A k \in IdsUsed :
           Writers(k) # {} =>
               LET w == dLog[LastWriter(k)] IN
               /\ to_string(k) \in DOMAIN files
               /\ IF w.ret.ok
                  THEN files[to_string(k)] = w.contents
                  ELSE files[to_string(k)] \in StrictPrefixes(w.contents)

C10_Witness ==
    /\ Len(dLog) = 2
    /\ dLog[1].inst # dLog[2].inst
    /\ dLog[1].ret = Ok([id |-> 1])
    /\ dLog[2].ret = Ok([id |-> 1])
    /\ dLog[1].contents # dLog[2].contents
    /\ files[<<1>>] = dLog[2].contents

\* C9: each remote upload call reaches the client exactly once, with the
\* group id the backend was constructed with, and a successful client call's
\* backing asset id is returned unchanged.
C9_OneClientCallPerUpload ==
    /\ Len(api_client) = Len(rLog)
    /\ \A k \in 1..Len(rLog) :
           /\ api_client[k].group_id = upload_to_group_id
           /\ api_client[k].image_data = rLog[k].data.contents
           /\ api_client[k].name = rLog[k].data.name
           /\ rLog[k].result.ok
                  => rLog[k].ret = Ok([id |-> rLog[k].result.value.backing_asset_id])

C9_Witness ==
    /\ upload_to_group_id = OptionSome(7)
    /\ Len(rLog) = 3
    /\ Is429(rLog[1].result)
    /\ rLog[2].ret = Ok([id |-> 100])
    /\ rLog[3].ret = Ok([id |-> 101])
    /\ Len(api_client) = 3

====
